---------------------------- MODULE Spec2Model ----------------------------
(***************************************************************************)
(* Model of the agents marketplace backend (src/index.js): the three       *)
(* tables users, agents and agent_ownerships with the constraints the      *)
(* schema of src/index.js declares, and the request handlers createUser    *)
(* (POST /api/users), createAgent (POST /api/agents) and purchaseAgent     *)
(* (POST /api/agents/buy), which write, and userExists, listCreatedAgents, *)
(* listOwnedAgents and checkOwnership (GET), which only read.              *)
(*                                                                         *)
(* Every handler is an async function: it runs to its next `await` without *)
(* interruption, and each awaited database statement is executed           *)
(* atomically by the store.  No handler opens a transaction.  One action   *)
(* of the model is therefore one database statement together with the      *)
(* handler code that runs between it and the next statement; the           *)
(* statements of different requests interleave freely.                     *)
(*                                                                         *)
(* Columns that take no part in any decision of the handlers (name,        *)
(* description, model, capabilities and the timestamps) are left out of    *)
(* the rows; of a text only its length is modelled, of the capabilities    *)
(* their number.  No handler issues an UPDATE or a DELETE.                 *)
(*                                                                         *)
(* The store's constraints are those of the pgTable declarations of        *)
(* src/index.js, which drizzle.config.js names as the schema: in           *)
(* particular agent_ownerships.agent_id references agents.agent_id, the    *)
(* smart contract ID, and no constraint spans (agent_id, user_id).  (The   *)
(* first migration predates the agents.agent_id column every statement on  *)
(* agents names, so it is not the schema the handlers run against.)        *)
(***************************************************************************)
EXTENDS Integers, FiniteSets

\* ---------------------------------------------------------------- bounds
\* number of requests that arrive in a behaviour
MaxRequests == 3
\* well-formed wallet addresses are 1..NumWallets
NumWallets == 2
\* agent identifiers a client supplies (external on create, internal on buy)
MaxAgentId == 2
\* number of requests the server is handling at the same time
MaxInFlight == 2
\* number of GET requests among them
MaxReads == 1
\* the largest price a client gives
MaxPrice == 1

\* ------------------------------------------------------- program constants
\* JavaScript `undefined`: an optional field the request body leaves out
Undefined == -1
\* SQL NULL in agents.agent_id (`agentData.agentId || null`)
Null == 0
\* a wallet address the regex of walletAddressSchema rejects
MalformedWallet == 0
\* parseInt of a route parameter that does not start with digits
NaN == -2

Requests == 1..MaxRequests
Wallets == 1..NumWallets
AgentIds == 1..MaxAgentId

VARIABLES
    users,              \* table users: rows [id, walletAddress]
    agents,             \* table agents: rows [id, price, isForSale, creatorId, agentId]
    agentOwnerships,    \* table agent_ownerships: rows [id, agentId, userId]
    usersSeq,           \* last value of the serial users.id
    agentsSeq,          \* last value of the serial agents.id
    ownershipsSeq,      \* last value of the serial agent_ownerships.id
    arrived,            \* number of requests that have arrived
    req                 \* per request: the handler's position and locals

vars == <<users, agents, agentOwnerships, usersSeq, agentsSeq, ownershipsSeq,
          arrived, req>>

tables == <<users, agents, agentOwnerships>>

\* ------------------------------------------------------------- validation
\* walletAddressSchema: 42 characters, 0x followed by 40 hex digits
walletAddressSchema(w) == w \in Wallets

\* z.number().positive()
positive(n) == n > 0

\* z.number().positive().optional()
positiveOptional(n) == n = Undefined \/ positive(n)

createUserSchema(body) == walletAddressSchema(body.walletAddress)

\* mutant: a string check without the lower bound
stringMinMax_NoMin(len, lo, hi) == len <= hi

\* z.string().min(lo).max(hi), on the length of the string
stringMinMax(len, lo, hi) == lo <= len /\ len <= hi

\* z.number().min(0).optional()
min0Optional(n) == n = Undefined \/ n >= 0

createAgentSchema(body) ==
    /\ stringMinMax(body.name, 1, 255)
    /\ stringMinMax(body.description, 1, 1000)
    /\ stringMinMax(body.model, 1, 100)
    /\ body.capabilities >= 1
    /\ min0Optional(body.price)
    /\ body.isForSale \in {"undefined", "true", "false"}
    /\ walletAddressSchema(body.creatorWalletAddress)
    /\ positiveOptional(body.agentId)

buyAgentSchema(body) ==
    /\ positive(body.agentId)
    /\ walletAddressSchema(body.buyerWalletAddress)

\* JavaScript truthiness of an optional number
Truthy(n) == n # Undefined /\ n # 0

\* agentData.agentId || null
AgentIdOrNull(n) == IF Truthy(n) THEN n ELSE Null

\* mutant: a flag that defaults to true when the body leaves it out
IsForSaleOrFalse_DefaultTrue(b) == b # "false"

\* agentData.isForSale || false
IsForSaleOrFalse(b) == b = "true"

\* agentData.price || 0.  Prices are whole numbers within the precision of
\* the column, decimal(10, 2), which stores them as they are given.
PriceOrZero(n) == IF Truthy(n) THEN n ELSE 0

\* ------------------------------------------------------ store constraints
\* mutant: the users table without its unique constraint
UsersWalletAddressUnique_Dropped(w) == TRUE

\* users.wallet_address UNIQUE
UsersWalletAddressUnique(w) == \A u \in users : u.walletAddress # w

\* mutant: agents.agent_id without its unique constraint
AgentsAgentIdUnique_Dropped(x) == TRUE

\* agents.agent_id UNIQUE (NULLs never collide)
AgentsAgentIdUnique(x) == x = Null \/ \A a \in agents : a.agentId # x

\* agents.creator_id REFERENCES users(id)
AgentsCreatorIdFk(uid) == \E u \in users : u.id = uid

\* agent_ownerships.agent_id NOT NULL; drizzle leaves an undefined value out
\* of the INSERT, so the column gets no value
OwnershipsAgentIdNotNull(x) == x # Undefined /\ x # Null

\* mutant: a store without the foreign key on agent_ownerships.agent_id
OwnershipsAgentIdFk_Dropped(x) == TRUE

\* agent_ownerships.agent_id REFERENCES agents(agent_id)
OwnershipsAgentIdFk(x) == \E a \in agents : a.agentId = x

\* agent_ownerships.user_id REFERENCES users(id)
OwnershipsUserIdFk(uid) == \E u \in users : u.id = uid

\* What the store answers to an INSERT: "ok", or the constraint it violates
\* (the message of the error the driver throws).  A serial id is drawn
\* before the constraints are checked, so a rejected INSERT uses one up.
InsertUsers(w) ==
    IF ~UsersWalletAddressUnique(w) THEN "error_users_wallet_address_unique"
    ELSE "ok"

InsertAgents(x, uid) ==
    IF ~AgentsAgentIdUnique(x) THEN "error_agents_agent_id_unique"
    ELSE IF ~AgentsCreatorIdFk(uid) THEN "error_agents_creator_id_fk"
    ELSE "ok"

InsertOwnerships(x, uid) ==
    IF ~OwnershipsAgentIdNotNull(x) THEN "error_ownerships_agent_id_not_null"
    ELSE IF ~OwnershipsAgentIdFk(x) THEN "error_ownerships_agent_id_fk"
    ELSE IF ~OwnershipsUserIdFk(uid) THEN "error_ownerships_user_id_fk"
    ELSE "ok"

\* ---------------------------------------------------------------- queries
\* db.select().from(users).where(eq(users.walletAddress, w)).limit(1)
SelectUserByWallet(w) == {u \in users : u.walletAddress = w}

\* db.select().from(agents).where(eq(agents.agentId, x)).limit(1)
SelectAgentByAgentId(x) == {a \in agents : a.agentId = x}

\* mutant: the purchase looks the agent up by its smart contract ID
SelectAgentById_ByContractId(id) == {a \in agents : a.agentId = id}

\* db.select().from(agents).where(eq(agents.id, id)).limit(1)
SelectAgentById(id) == {a \in agents : a.id = id}

\* mutant: an ownership lookup that finds nothing
SelectOwnership_Skipped(x, uid) == {}

\* db.select().from(agentOwnerships).where(and(eq(agentId), eq(userId))).limit(1)
SelectOwnership(x, uid) ==
    {o \in agentOwnerships : o.agentId = x /\ o.userId = uid}

\* ---------------------------------------------------------------- requests
\* op, pc: the handler and its position; wallet, agentId, isForSale: the
\* request body; user: the row getOrCreateUser returned (its id); agent: the
\* agent row inserted or selected (its id); status: the response.
\* agentsSeen is a history field, read by no action: the value of the agents
\* serial when the request arrived (agent k existed then iff it exists and
\* k <= agentsSeen).
IdleRequest ==
    [op |-> "none", pc |-> "idle", wallet |-> MalformedWallet,
     agentId |-> Undefined, isForSale |-> "undefined",
     user |-> 0, agent |-> 0, status |-> "pending", agentsSeen |-> 0,
     result |-> {},
     name |-> 0, description |-> 0, model |-> 0, capabilities |-> 0,
     price |-> Undefined]

\* the handler sends its response: nothing of the request runs afterwards.
\* The record keeps what the request asked for and what the response carries;
\* of a request that passed validation it drops the for-sale flag and the
\* price, which the agent row holds from then on.
Respond(r, status) ==
    [r EXCEPT !.pc = "done", !.status = status, !.isForSale = "undefined",
              !.agentsSeen = 0,
              !.price = IF status = "validation_error" THEN r.price ELSE Undefined]

Init ==
    /\ users = {}
    /\ agents = {}
    /\ agentOwnerships = {}
    /\ usersSeq = 0
    /\ agentsSeq = 0
    /\ ownershipsSeq = 0
    /\ arrived = 0
    /\ req = [r \in Requests |-> IdleRequest]

InFlight == {r \in Requests : req[r].pc \notin {"idle", "done"}}

\* the next request to arrive
Arriving(r) ==
    /\ r = arrived + 1
    /\ r \in Requests
    /\ Cardinality(InFlight) < MaxInFlight

\* a well-formed body of createAgent that leaves every optional field out
PlainAgentBody ==
    [name |-> 1, description |-> 1, model |-> 1, capabilities |-> 1,
     price |-> Undefined, creatorWalletAddress |-> 1, agentId |-> Undefined,
     isForSale |-> "undefined"]

\* request bodies: the well-formed ones, and for each check of the schema
\* the bodies that fail that check alone
CreateAgentBodies ==
    [name : {1}, description : {1}, model : {1}, capabilities : {1},
     price : {Undefined},
     creatorWalletAddress : Wallets, agentId : AgentIds \cup {Undefined},
     isForSale : {"undefined", "true", "false"}]
    \cup {[PlainAgentBody EXCEPT !.creatorWalletAddress = MalformedWallet]}
    \cup {[PlainAgentBody EXCEPT !.agentId = 0]}
    \cup {[PlainAgentBody EXCEPT !.name = n] : n \in {0, 256}}
    \cup {[PlainAgentBody EXCEPT !.description = n] : n \in {0, 1001}}
    \cup {[PlainAgentBody EXCEPT !.model = n] : n \in {0, 101}}
    \cup {[PlainAgentBody EXCEPT !.capabilities = 0]}
    \cup {[PlainAgentBody EXCEPT !.price = 0 - MaxPrice - 1]}

BuyAgentBodies ==
    [agentId : AgentIds, buyerWalletAddress : Wallets]
    \cup [agentId : {1}, buyerWalletAddress : {MalformedWallet}]
    \cup [agentId : {0}, buyerWalletAddress : {1}]

\* ------------------------------------------------------------ createUser
\* POST /api/users up to its INSERT: parse, then the lookup
CreateUserBegin(r) ==
    /\ Arriving(r)
    /\ arrived' = r
    /\ \E w \in Wallets \cup {MalformedWallet} :
         LET me == [IdleRequest EXCEPT !.op = "createUser", !.wallet = w,
                                       !.agentsSeen = agentsSeq] IN
         req' = [req EXCEPT ![r] =
             IF ~createUserSchema([walletAddress |-> w])
             THEN Respond(me, "validation_error")
             ELSE IF SelectUserByWallet(w) # {}
             THEN Respond(me, "user_exists")
             ELSE [me EXCEPT !.pc = "cu_insert"]]
    /\ UNCHANGED <<tables, usersSeq, agentsSeq, ownershipsSeq>>

\* db.insert(users).values({ walletAddress }).returning()
CreateUserInsert(r) ==
    /\ req[r].pc = "cu_insert"
    /\ usersSeq' = usersSeq + 1
    /\ IF InsertUsers(req[r].wallet) = "ok"
       THEN /\ users' = users \cup
                   {[id |-> usersSeq + 1, walletAddress |-> req[r].wallet]}
            /\ req' = [req EXCEPT ![r] =
                   Respond([req[r] EXCEPT !.user = usersSeq + 1], "created")]
       ELSE /\ users' = users
            /\ req' = [req EXCEPT ![r] =
                   Respond(req[r], InsertUsers(req[r].wallet))]
    /\ UNCHANGED <<agents, agentOwnerships, agentsSeq, ownershipsSeq, arrived>>


\* -------------------------------------------------------- getOrCreateUser
\* where the handler goes on once getOrCreateUser has returned
AfterUser(me) ==
    IF me.op = "createAgent"
    THEN (IF Truthy(me.agentId) THEN "ca_check" ELSE "ca_insert_agent")
    ELSE "buy_select_agent"

\* mutant: getOrCreateUser that inserts without looking the wallet up
GetOrCreateUserLookup_AlwaysInsert(me) == [me EXCEPT !.pc = "gocu_insert"]

\* getOrCreateUser up to its INSERT: the lookup, and the return when found
GetOrCreateUserLookup(me) ==
    LET user == SelectUserByWallet(me.wallet) IN
    IF user = {}
    THEN [me EXCEPT !.pc = "gocu_insert"]
    ELSE [me EXCEPT !.user = (CHOOSE u \in user : TRUE).id, !.pc = AfterUser(me)]

\* mutant: a getOrCreateUser that, when its INSERT is rejected, reads the
\* user again and goes on with the row it finds
GetOrCreateUserInsert_Retry(r) ==
    /\ req[r].pc = "gocu_insert"
    /\ usersSeq' = usersSeq + 1
    /\ IF InsertUsers(req[r].wallet) = "ok"
       THEN /\ users' = users \cup
                   {[id |-> usersSeq + 1, walletAddress |-> req[r].wallet]}
            /\ req' = [req EXCEPT ![r] =
                   [req[r] EXCEPT !.user = usersSeq + 1, !.pc = AfterUser(req[r])]]
       ELSE /\ users' = users
            /\ req' = [req EXCEPT ![r] =
                   [req[r] EXCEPT
                      !.user = (CHOOSE u \in SelectUserByWallet(req[r].wallet) : TRUE).id,
                      !.pc = AfterUser(req[r])]]
    /\ UNCHANGED <<agents, agentOwnerships, agentsSeq, ownershipsSeq, arrived>>

\* getOrCreateUser: db.insert(users).values({ walletAddress }).returning();
\* a rejected INSERT is rethrown as `Database error` and caught by the handler
GetOrCreateUserInsert(r) ==
    /\ req[r].pc = "gocu_insert"
    /\ usersSeq' = usersSeq + 1
    /\ IF InsertUsers(req[r].wallet) = "ok"
       THEN /\ users' = users \cup
                   {[id |-> usersSeq + 1, walletAddress |-> req[r].wallet]}
            /\ req' = [req EXCEPT ![r] =
                   [req[r] EXCEPT !.user = usersSeq + 1, !.pc = AfterUser(req[r])]]
       ELSE /\ users' = users
            /\ req' = [req EXCEPT ![r] =
                   Respond(req[r], InsertUsers(req[r].wallet))]
    /\ UNCHANGED <<agents, agentOwnerships, agentsSeq, ownershipsSeq, arrived>>

\* ----------------------------------------------------------- createAgent
\* POST /api/agents with a body of `bodies`: parse, then the lookup of
\* getOrCreateUser
CreateAgentArrive(r, bodies) ==
    /\ Arriving(r)
    /\ arrived' = r
    /\ \E body \in bodies :
         LET me == [IdleRequest EXCEPT !.op = "createAgent",
                                       !.wallet = body.creatorWalletAddress,
                                       !.agentId = body.agentId,
                                       !.isForSale = body.isForSale,
                                       !.name = body.name,
                                       !.description = body.description,
                                       !.model = body.model,
                                       !.capabilities = body.capabilities,
                                       !.price = body.price,
                                       !.agentsSeen = agentsSeq] IN
         req' = [req EXCEPT ![r] =
             IF ~createAgentSchema(body)
             THEN Respond(me, "validation_error")
             ELSE GetOrCreateUserLookup(me)]
    /\ UNCHANGED <<tables, usersSeq, agentsSeq, ownershipsSeq>>

CreateAgentBegin(r) == CreateAgentArrive(r, CreateAgentBodies)

\* if (agentData.agentId): is there an agent with this smart contract ID?
CreateAgentCheckExisting(r) ==
    /\ req[r].pc = "ca_check"
    /\ req' = [req EXCEPT ![r] =
           IF SelectAgentByAgentId(req[r].agentId) # {}
           THEN Respond(req[r], "conflict")
           ELSE [req[r] EXCEPT !.pc = "ca_insert_agent"]]
    /\ UNCHANGED <<tables, usersSeq, agentsSeq, ownershipsSeq, arrived>>

\* db.insert(agents).values({...}).returning()
CreateAgentInsertAgent(r) ==
    /\ req[r].pc = "ca_insert_agent"
    /\ agentsSeq' = agentsSeq + 1
    /\ IF InsertAgents(AgentIdOrNull(req[r].agentId), req[r].user) = "ok"
       THEN /\ agents' = agents \cup
                   {[id |-> agentsSeq + 1,
                     price |-> PriceOrZero(req[r].price),
                     isForSale |-> IsForSaleOrFalse(req[r].isForSale),
                     creatorId |-> req[r].user,
                     agentId |-> AgentIdOrNull(req[r].agentId)]}
            /\ req' = [req EXCEPT ![r] =
                   [req[r] EXCEPT !.agent = agentsSeq + 1,
                                  !.pc = "ca_insert_ownership"]]
       ELSE /\ agents' = agents
            /\ req' = [req EXCEPT ![r] =
                   Respond(req[r], InsertAgents(AgentIdOrNull(req[r].agentId),
                                                req[r].user))]
    /\ UNCHANGED <<users, agentOwnerships, usersSeq, ownershipsSeq, arrived>>

\* the value createAgent writes to agent_ownerships.agent_id
CreatorOwnershipAgentId(me) == me.agentId

\* db.insert(agentOwnerships).values({ agentId: agentData.agentId, userId })
CreateAgentInsertOwnership(r) ==
    /\ req[r].pc = "ca_insert_ownership"
    /\ ownershipsSeq' = ownershipsSeq + 1
    /\ IF InsertOwnerships(CreatorOwnershipAgentId(req[r]), req[r].user) = "ok"
       THEN /\ agentOwnerships' = agentOwnerships \cup
                   {[id |-> ownershipsSeq + 1,
                     agentId |-> CreatorOwnershipAgentId(req[r]),
                     userId |-> req[r].user]}
            /\ req' = [req EXCEPT ![r] = Respond(req[r], "created")]
       ELSE /\ agentOwnerships' = agentOwnerships
            /\ req' = [req EXCEPT ![r] =
                   Respond(req[r], InsertOwnerships(CreatorOwnershipAgentId(req[r]),
                                                    req[r].user))]
    /\ UNCHANGED <<users, agents, usersSeq, agentsSeq, arrived>>

\* --------------------------------------------------------- purchaseAgent
\* POST /api/agents/buy: parse, then the lookup of getOrCreateUser
BuyAgentBegin(r) ==
    /\ Arriving(r)
    /\ arrived' = r
    /\ \E body \in BuyAgentBodies :
         LET me == [IdleRequest EXCEPT !.op = "buyAgent",
                                       !.wallet = body.buyerWalletAddress,
                                       !.agentId = body.agentId,
                                       !.agentsSeen = agentsSeq] IN
         req' = [req EXCEPT ![r] =
             IF ~buyAgentSchema(body)
             THEN Respond(me, "validation_error")
             ELSE GetOrCreateUserLookup(me)]
    /\ UNCHANGED <<tables, usersSeq, agentsSeq, ownershipsSeq>>

\* mutant: a purchase handler without the for-sale gate
NotForSale_Dropped(agent) == FALSE

\* if (!agent[0].isForSale)
NotForSale(agent) == ~agent.isForSale

\* mutant: a purchase handler that looks for the buyer's ownership row before
\* it looks at the for-sale flag
BuyAgentSelectAgent_OwnershipFirst(r) ==
    /\ req[r].pc = "buy_select_agent"
    /\ LET agent == SelectAgentById(req[r].agentId) IN
       req' = [req EXCEPT ![r] =
           IF agent = {}
           THEN Respond(req[r], "not_found")
           ELSE IF SelectOwnership(req[r].agentId, req[r].user) # {}
           THEN Respond(req[r], "already_owned")
           ELSE IF NotForSale(CHOOSE a \in agent : TRUE)
           THEN Respond(req[r], "not_for_sale")
           ELSE [req[r] EXCEPT !.agent = (CHOOSE a \in agent : TRUE).id,
                               !.pc = "buy_insert_ownership"]]
    /\ UNCHANGED <<tables, usersSeq, agentsSeq, ownershipsSeq, arrived>>

\* select the agent by agents.id; 404 when absent, 400 when not for sale
BuyAgentSelectAgent(r) ==
    /\ req[r].pc = "buy_select_agent"
    /\ LET agent == SelectAgentById(req[r].agentId) IN
       req' = [req EXCEPT ![r] =
           IF agent = {}
           THEN Respond(req[r], "not_found")
           ELSE IF NotForSale(CHOOSE a \in agent : TRUE)
           THEN Respond(req[r], "not_for_sale")
           ELSE [req[r] EXCEPT !.agent = (CHOOSE a \in agent : TRUE).id,
                               !.pc = "buy_select_ownership"]]
    /\ UNCHANGED <<tables, usersSeq, agentsSeq, ownershipsSeq, arrived>>

\* does the buyer already own this agent?
BuyAgentSelectOwnership(r) ==
    /\ req[r].pc = "buy_select_ownership"
    /\ req' = [req EXCEPT ![r] =
           IF SelectOwnership(req[r].agentId, req[r].user) # {}
           THEN Respond(req[r], "already_owned")
           ELSE [req[r] EXCEPT !.pc = "buy_insert_ownership"]]
    /\ UNCHANGED <<tables, usersSeq, agentsSeq, ownershipsSeq, arrived>>

\* mutant: a purchase that also takes the agent off the market
BuyAgentInsertOwnership_Delists(r) ==
    /\ req[r].pc = "buy_insert_ownership"
    /\ ownershipsSeq' = ownershipsSeq + 1
    /\ IF InsertOwnerships(req[r].agentId, req[r].user) = "ok"
       THEN /\ agentOwnerships' = agentOwnerships \cup
                   {[id |-> ownershipsSeq + 1,
                     agentId |-> req[r].agentId,
                     userId |-> req[r].user]}
            /\ agents' = {IF a.id = req[r].agent
                          THEN [a EXCEPT !.isForSale = FALSE] ELSE a : a \in agents}
            /\ req' = [req EXCEPT ![r] = Respond(req[r], "purchased")]
       ELSE /\ agentOwnerships' = agentOwnerships
            /\ agents' = agents
            /\ req' = [req EXCEPT ![r] =
                   Respond(req[r], InsertOwnerships(req[r].agentId, req[r].user))]
    /\ UNCHANGED <<users, usersSeq, agentsSeq, arrived>>

\* mutant: a purchase that transfers the agent: the rows of its other owners
\* are deleted
BuyAgentInsertOwnership_Transfer(r) ==
    /\ req[r].pc = "buy_insert_ownership"
    /\ ownershipsSeq' = ownershipsSeq + 1
    /\ IF InsertOwnerships(req[r].agentId, req[r].user) = "ok"
       THEN /\ agentOwnerships' =
                   {o \in agentOwnerships : o.agentId # req[r].agentId} \cup
                   {[id |-> ownershipsSeq + 1,
                     agentId |-> req[r].agentId,
                     userId |-> req[r].user]}
            /\ req' = [req EXCEPT ![r] = Respond(req[r], "purchased")]
       ELSE /\ agentOwnerships' = agentOwnerships
            /\ req' = [req EXCEPT ![r] =
                   Respond(req[r], InsertOwnerships(req[r].agentId, req[r].user))]
    /\ UNCHANGED <<users, agents, usersSeq, agentsSeq, arrived>>

\* db.insert(agentOwnerships).values({ agentId, userId: buyer.id }).returning()
BuyAgentInsertOwnership(r) ==
    /\ req[r].pc = "buy_insert_ownership"
    /\ ownershipsSeq' = ownershipsSeq + 1
    /\ IF InsertOwnerships(req[r].agentId, req[r].user) = "ok"
       THEN /\ agentOwnerships' = agentOwnerships \cup
                   {[id |-> ownershipsSeq + 1,
                     agentId |-> req[r].agentId,
                     userId |-> req[r].user]}
            /\ req' = [req EXCEPT ![r] = Respond(req[r], "purchased")]
       ELSE /\ agentOwnerships' = agentOwnerships
            /\ req' = [req EXCEPT ![r] =
                   Respond(req[r], InsertOwnerships(req[r].agentId, req[r].user))]
    /\ UNCHANGED <<users, agents, usersSeq, agentsSeq, arrived>>

\* ------------------------------------------------------------------- Next
Next ==
    \E r \in Requests :
        \/ CreateUserBegin(r)
        \/ CreateUserInsert(r)
        \/ CreateAgentBegin(r)
        \/ GetOrCreateUserInsert(r)
        \/ CreateAgentCheckExisting(r)
        \/ CreateAgentInsertAgent(r)
        \/ CreateAgentInsertOwnership(r)
        \/ BuyAgentBegin(r)
        \/ BuyAgentSelectAgent(r)
        \/ BuyAgentSelectOwnership(r)
        \/ BuyAgentInsertOwnership(r)

Spec == Init /\ [][Next]_vars

\* ------------------------------------------- createAgent and its prices
\* the well-formed bodies of createAgent of one creator, with and without a
\* price
PricedAgentBodies ==
    [name : {1}, description : {1}, model : {1}, capabilities : {1},
     price : {Undefined} \cup (0..MaxPrice),
     creatorWalletAddress : {1}, agentId : AgentIds \cup {Undefined},
     isForSale : {"undefined", "true", "false"}]

CreateAgentBeginPriced(r) == CreateAgentArrive(r, PricedAgentBodies)

\* the createAgent requests alone
NextPriced ==
    \E r \in Requests :
        \/ CreateAgentBeginPriced(r)
        \/ GetOrCreateUserInsert(r)
        \/ CreateAgentCheckExisting(r)
        \/ CreateAgentInsertAgent(r)
        \/ CreateAgentInsertOwnership(r)

SpecPriced == Init /\ [][NextPriced]_vars

\* ------------------------------------------------------ the GET endpoints
ReadOps == {"userExists", "listCreatedAgents", "listOwnedAgents", "checkOwnership"}

\* the next request to arrive is one of the GET requests
ArrivingRead(r) ==
    /\ Arriving(r)
    /\ Cardinality({q \in Requests : req[q].op \in ReadOps}) < MaxReads

\* mutant: a userExists that resolves the wallet as getOrCreateUser does
UserExists_GetOrCreate(r) ==
    /\ ArrivingRead(r)
    /\ arrived' = r
    /\ \E w \in Wallets \cup {MalformedWallet} :
         LET me == [IdleRequest EXCEPT !.op = "userExists", !.wallet = w]
             user == SelectUserByWallet(w) IN
         IF walletAddressSchema(w) /\ user = {}
         THEN /\ users' = users \cup {[id |-> usersSeq + 1, walletAddress |-> w]}
              /\ usersSeq' = usersSeq + 1
              /\ req' = [req EXCEPT ![r] =
                     Respond([me EXCEPT !.user = usersSeq + 1], "exists_true")]
         ELSE /\ users' = users
              /\ usersSeq' = usersSeq
              /\ req' = [req EXCEPT ![r] =
                     IF ~walletAddressSchema(w)
                     THEN Respond(me, "validation_error")
                     ELSE Respond([me EXCEPT !.user = (CHOOSE u \in user : TRUE).id],
                                  "exists_true")]
    /\ UNCHANGED <<agents, agentOwnerships, agentsSeq, ownershipsSeq>>

\* GET /api/users/:walletAddress/exists
UserExists(r) ==
    /\ ArrivingRead(r)
    /\ arrived' = r
    /\ \E w \in Wallets \cup {MalformedWallet} :
         LET me == [IdleRequest EXCEPT !.op = "userExists", !.wallet = w]
             user == SelectUserByWallet(w) IN
         req' = [req EXCEPT ![r] =
             IF ~walletAddressSchema(w)
             THEN Respond(me, "validation_error")
             ELSE IF user = {}
             THEN Respond(me, "exists_false")
             ELSE Respond([me EXCEPT !.user = (CHOOSE u \in user : TRUE).id],
                          "exists_true")]
    /\ UNCHANGED <<tables, usersSeq, agentsSeq, ownershipsSeq>>

\* a list endpoint up to its second SELECT: the wallet's format, then the user
ListBegin(r, op, pc) ==
    /\ ArrivingRead(r)
    /\ arrived' = r
    /\ \E w \in Wallets \cup {MalformedWallet} :
         LET me == [IdleRequest EXCEPT !.op = op, !.wallet = w]
             user == SelectUserByWallet(w) IN
         req' = [req EXCEPT ![r] =
             IF ~walletAddressSchema(w)
             THEN Respond(me, "validation_error")
             ELSE IF user = {}
             THEN Respond(me, "user_not_found")
             ELSE [me EXCEPT !.user = (CHOOSE u \in user : TRUE).id, !.pc = pc]]
    /\ UNCHANGED <<tables, usersSeq, agentsSeq, ownershipsSeq>>

\* GET /api/users/:walletAddress/created-agents
ListCreatedAgentsBegin(r) == ListBegin(r, "listCreatedAgents", "lc_select_agents")

\* db.select().from(agents).where(eq(agents.creatorId, user[0].id))
ListCreatedAgentsSelect(r) ==
    /\ req[r].pc = "lc_select_agents"
    /\ req' = [req EXCEPT ![r] =
           Respond([req[r] EXCEPT !.result =
                       {a.id : a \in {b \in agents : b.creatorId = req[r].user}}],
                   "listed")]
    /\ UNCHANGED <<tables, usersSeq, agentsSeq, ownershipsSeq, arrived>>

\* GET /api/users/:walletAddress/owned-agents
ListOwnedAgentsBegin(r) == ListBegin(r, "listOwnedAgents", "lo_select_agents")

\* the agents joined to the user's ownership rows:
\* innerJoin(agents, eq(agentOwnerships.agentId, agents.id))
OwnedAgents(uid) ==
    {a \in agents : \E o \in agentOwnerships : o.userId = uid /\ o.agentId = a.id}

\* from(agentOwnerships).innerJoin(agents, ...).where(eq(userId, user[0].id))
ListOwnedAgentsSelect(r) ==
    /\ req[r].pc = "lo_select_agents"
    /\ req' = [req EXCEPT ![r] =
           Respond([req[r] EXCEPT !.result = {a.id : a \in OwnedAgents(req[r].user)}],
                   "listed")]
    /\ UNCHANGED <<tables, usersSeq, agentsSeq, ownershipsSeq, arrived>>

\* the :agentId values of the route: digits, or text parseInt makes NaN of
AgentIdParams == AgentIds \cup {NaN}

\* mutant: a checkOwnership that answers a missing user as the list
\* endpoints do
CheckOwnershipBegin_UserNotFound(r) ==
    /\ ArrivingRead(r)
    /\ arrived' = r
    /\ \E w \in Wallets \cup {MalformedWallet}, x \in AgentIdParams :
         LET me == [IdleRequest EXCEPT !.op = "checkOwnership", !.wallet = w,
                                       !.agentId = x]
             user == SelectUserByWallet(w) IN
         req' = [req EXCEPT ![r] =
             IF ~walletAddressSchema(w)
             THEN Respond(me, "validation_error")
             ELSE IF user = {}
             THEN Respond(me, "user_not_found")
             ELSE [me EXCEPT !.user = (CHOOSE u \in user : TRUE).id,
                             !.pc = "co_select_ownership"]]
    /\ UNCHANGED <<tables, usersSeq, agentsSeq, ownershipsSeq>>

\* GET /api/agents/:agentId/ownership/:walletAddress up to its second SELECT
CheckOwnershipBegin(r) ==
    /\ ArrivingRead(r)
    /\ arrived' = r
    /\ \E w \in Wallets \cup {MalformedWallet}, x \in AgentIdParams :
         LET me == [IdleRequest EXCEPT !.op = "checkOwnership", !.wallet = w,
                                       !.agentId = x]
             user == SelectUserByWallet(w) IN
         req' = [req EXCEPT ![r] =
             IF ~walletAddressSchema(w)
             THEN Respond(me, "validation_error")
             ELSE IF user = {}
             THEN Respond(me, "owns_false")
             ELSE [me EXCEPT !.user = (CHOOSE u \in user : TRUE).id,
                             !.pc = "co_select_ownership"]]
    /\ UNCHANGED <<tables, usersSeq, agentsSeq, ownershipsSeq>>

\* the ownership lookup by (parseInt(agentId), user id); NaN is no integer
\* for the store, which rejects the statement (500)
CheckOwnershipSelect(r) ==
    /\ req[r].pc = "co_select_ownership"
    /\ req' = [req EXCEPT ![r] =
           IF req[r].agentId = NaN
           THEN Respond(req[r], "error_invalid_integer")
           ELSE IF SelectOwnership(req[r].agentId, req[r].user) # {}
           THEN Respond(req[r], "owns_true")
           ELSE Respond(req[r], "owns_false")]
    /\ UNCHANGED <<tables, usersSeq, agentsSeq, ownershipsSeq, arrived>>

\* all the endpoints that read or write users, agents and ownerships
NextReads ==
    \/ Next
    \/ \E r \in Requests :
        \/ UserExists(r)
        \/ ListCreatedAgentsBegin(r)
        \/ ListCreatedAgentsSelect(r)
        \/ ListOwnedAgentsBegin(r)
        \/ ListOwnedAgentsSelect(r)
        \/ CheckOwnershipBegin(r)
        \/ CheckOwnershipSelect(r)

SpecReads == Init /\ [][NextReads]_vars

\* ----------------------------------------------------------------- claims
\* request r sends its response in this step
Finishes(r) == req[r].pc # "done" /\ req'[r].pc = "done"

\* the agent row a createAgent request inserted
AgentOf(me, table) == CHOOSE a \in table : a.id = me.agent

\* C1: in every reachable state the ownerships table holds at most one row
\* for any (agent, user) pair.
C1_OneOwnershipPerPair ==
    \A o1, o2 \in agentOwnerships :
        (o1.agentId = o2.agentId /\ o1.userId = o2.userId) => o1 = o2

\* C2: a createAgent request that ends in success leaves exactly one
\* ownership row linking the creator to the agent it created (the row is
\* keyed by the agent's external identifier, as createAgent writes it).
C2_CreatedImpliesOneCreatorOwnership ==
    [][\A r \in Requests :
          (Finishes(r) /\ req'[r].op = "createAgent" /\ req'[r].status = "created")
          => Cardinality({o \in agentOwnerships' :
                 /\ o.userId = req'[r].user
                 /\ o.agentId = AgentOf(req'[r], agents').agentId}) = 1]_vars

\* C3: in no reachable state does an agent row exist without an ownership
\* row for its creator.
C3_AgentImpliesCreatorOwnership ==
    \A a \in agents :
        \E o \in agentOwnerships :
            o.userId = a.creatorId /\ o.agentId \in {a.agentId, a.id}

\* request r takes a step
Steps(r) == req'[r] # req[r]

\* r is a well-formed createAgent request that supplies the external
\* identifier x and has not inserted an agent row
SuppliesExternalId(r, x) ==
    /\ req'[r].op = "createAgent"
    /\ req'[r].status # "validation_error"
    /\ req'[r].agentId = x
    /\ req[r].agent = 0

\* C4: in every reachable state no two agent rows share a non-null external
\* identifier, and a step of a createAgent request that supplies an external
\* identifier some agent already holds adds no agent row and no ownership
\* row; the request ends in a conflict error: the pre-check's when the
\* identifier is held at the check, the store's duplicate-key rejection when
\* it lost the race to the INSERT (or lost the race for its creator's wallet).
C4_ExternalIdUnique ==
    [][/\ \A a1, a2 \in agents' :
            (a1.agentId # Null /\ a1.agentId = a2.agentId) => a1 = a2
       /\ \A r \in Requests : \A x \in AgentIds :
            (/\ Steps(r)
             /\ SuppliesExternalId(r, x)
             /\ \E a \in agents : a.agentId = x)
            => /\ agents' = agents
               /\ agentOwnerships' = agentOwnerships
               /\ req'[r].pc \in {"gocu_insert", "ca_check", "done"}
               /\ req[r].pc = "ca_check" => req'[r].status = "conflict"
               /\ req[r].pc = "ca_insert_agent"
                    => req'[r].status = "error_agents_agent_id_unique"
               /\ req'[r].pc = "done"
                    => req'[r].status \in {"conflict",
                                           "error_agents_agent_id_unique",
                                           "error_users_wallet_address_unique"}]_vars

\* C4 witness: two createAgent requests raced for one external identifier
\* and the loser was rejected by the store, a third was refused by the
\* pre-check, and one agent row holds the identifier.
C4_Witness ==
    \E r1, r2 \in Requests : \E x \in AgentIds :
        /\ req[r1].op = "createAgent" /\ req[r1].agentId = x
        /\ req[r1].status = "error_agents_agent_id_unique"
        /\ req[r2].op = "createAgent" /\ req[r2].agentId = x
        /\ req[r2].status = "conflict"
        /\ Cardinality({a \in agents : a.agentId = x}) = 1

\* C5: in every reachable state there is at most one user row per wallet
\* address.
C5_OneUserPerWallet ==
    \A u1, u2 \in users : u1.walletAddress = u2.walletAddress => u1 = u2

\* C5 witness: two first-time requests for one wallet both passed the
\* lookup; one inserted the row and the store rejected the other's INSERT.
C5_Witness ==
    \E r1, r2 \in Requests :
        /\ r1 # r2
        /\ req[r1].wallet = req[r2].wallet
        /\ req[r1].status = "error_users_wallet_address_unique"
        /\ req[r2].user # 0
        /\ \E u \in users : u.walletAddress = req[r1].wallet /\ u.id = req[r2].user

\* a handler that resolves its user through getOrCreateUser
ResolvesUser(me) == me.op \in {"createAgent", "buyAgent"}

\* C6: a getOrCreateUser call for a wallet for which an earlier call has
\* returned a user returns the same user identifier, adds no row and leaves
\* the users table unchanged.
C6_GetOrCreateUserIdempotent ==
    [][\A r, r2 \in Requests :
          (/\ r # r2
           /\ req[r].pc = "idle" /\ Steps(r)
           /\ ResolvesUser(req'[r]) /\ req'[r].status # "validation_error"
           /\ ResolvesUser(req[r2]) /\ req[r2].user # 0
           /\ req[r2].wallet = req'[r].wallet)
          => /\ req'[r].user = req[r2].user
             /\ users' = users
             /\ usersSeq' = usersSeq]_vars

\* C6 witness: a request resolved its user from the row an earlier, completed
\* getOrCreateUser call inserted; one INSERT into users was ever attempted.
C6_Witness ==
    \E r, r2 \in Requests :
        /\ r2 < r
        /\ ResolvesUser(req[r]) /\ ResolvesUser(req[r2])
        /\ req[r2].pc = "done"
        /\ req[r].wallet = req[r2].wallet
        /\ req[r].user # 0 /\ req[r].user = req[r2].user
        /\ usersSeq = 1
        /\ users = {[id |-> 1, walletAddress |-> req[r].wallet]}

\* r is a well-formed purchaseAgent request
Purchases(r) == req'[r].op = "buyAgent" /\ req'[r].status # "validation_error"

\* the agent a purchaseAgent request names exists with its for-sale flag false
NamesAgentNotForSale(me) ==
    \E a \in agents : a.id = me.agentId /\ ~a.isForSale

\* C7 as stated: a purchaseAgent request for an agent that exists when the
\* request arrives and has its for-sale flag false always ends with "not for
\* sale" and adds no ownership row.
C7_NotForSaleAlways ==
    [][\A r \in Requests :
          (/\ Finishes(r) /\ Purchases(r)
           /\ NamesAgentNotForSale(req'[r])
           /\ req'[r].agentId <= req[r].agentsSeen)
          => /\ req'[r].status = "not_for_sale"
             /\ agentOwnerships' = agentOwnerships]_vars

\* C7 amended: no step of a purchaseAgent request for an existing agent whose
\* for-sale flag is false adds an ownership row, whoever the buyer is; the
\* request ends with "not for sale" at its agent lookup, and can end earlier
\* only with the store's rejection of its user INSERT.
C7_NotForSaleNeverPurchased ==
    [][\A r \in Requests :
          (Steps(r) /\ Purchases(r) /\ NamesAgentNotForSale(req'[r]))
          => /\ agentOwnerships' = agentOwnerships
             /\ req'[r].pc \in {"gocu_insert", "buy_select_agent", "done"}
             /\ req[r].pc = "buy_select_agent" => req'[r].status = "not_for_sale"
             /\ req'[r].pc = "done"
                  => req'[r].status \in {"not_for_sale",
                                         "error_users_wallet_address_unique"}]_vars

\* C7 witness: the creator of an agent that is not for sale, who holds its
\* ownership record, was refused with "not for sale", and so was a buyer
\* with a new wallet.
C7_Witness ==
    \E r1, r2 \in Requests : \E a \in agents :
        /\ ~a.isForSale
        /\ req[r1].op = "buyAgent" /\ req[r1].agentId = a.id
        /\ req[r1].status = "not_for_sale" /\ req[r1].user = a.creatorId
        /\ \E o \in agentOwnerships : o.userId = a.creatorId
        /\ req[r2].op = "buyAgent" /\ req[r2].agentId = a.id
        /\ req[r2].status = "not_for_sale" /\ req[r2].user # a.creatorId

\* the purchaseAgent request names an identifier no agent row has
NamesNoAgent(me) == \A a \in agents : a.id # me.agentId

\* C8 as stated: a purchaseAgent request naming an identifier that matches no
\* agent ends with "not found" and writes no row to users, agents or
\* ownerships.
C8_NotFoundWritesNothing ==
    [][\A r \in Requests :
          (Steps(r) /\ Purchases(r) /\ NamesNoAgent(req'[r]))
          => /\ users' = users
             /\ agents' = agents
             /\ agentOwnerships' = agentOwnerships
             /\ req'[r].pc = "done" => req'[r].status = "not_found"]_vars

\* C8 amended: a purchaseAgent request naming an identifier that matches no
\* agent writes no agent row and no ownership row; the only row it writes is
\* the user row of a buyer wallet that has none; it ends with "not found" at
\* its agent lookup, and can end earlier only with the store's rejection of
\* its user INSERT.
C8_NotFoundWritesNoAgentOrOwnership ==
    [][\A r \in Requests :
          (Steps(r) /\ Purchases(r) /\ NamesNoAgent(req'[r]))
          => /\ agents' = agents
             /\ agentOwnerships' = agentOwnerships
             /\ \/ users' = users
                \/ /\ \A u \in users : u.walletAddress # req'[r].wallet
                   /\ \E u \in users' :
                        /\ u.walletAddress = req'[r].wallet
                        /\ users' = users \cup {u}
             /\ req[r].pc = "buy_select_agent" => req'[r].status = "not_found"
             /\ req'[r].pc = "done"
                  => req'[r].status \in {"not_found",
                                         "error_users_wallet_address_unique"}]_vars

\* C8 witness: the first request ever is a purchase by a new wallet of an
\* agent that does not exist: it ended with "not found", and the buyer's
\* user row is the only row of the store.
C8_Witness ==
    \E r \in Requests :
        /\ arrived = 1
        /\ req[r].op = "buyAgent" /\ req[r].status = "not_found"
        /\ users = {[id |-> req[r].user, walletAddress |-> req[r].wallet]}
        /\ agents = {} /\ agentOwnerships = {}

\* C9: once a purchaseAgent request of a wallet for an agent has ended in
\* success, a purchaseAgent request of the same wallet for the same agent
\* that has not yet passed its ownership lookup ends with "already owned" and
\* no step of it changes the ownerships table.
C9_SecondPurchaseAlreadyOwned ==
    [][\A r, r2 \in Requests :
          (/\ r # r2
           /\ Steps(r) /\ Purchases(r)
           /\ req[r].pc \in {"idle", "buy_select_agent", "buy_select_ownership"}
           /\ req[r2].op = "buyAgent" /\ req[r2].status = "purchased"
           /\ req[r2].wallet = req'[r].wallet
           /\ req[r2].agentId = req'[r].agentId)
          => /\ agentOwnerships' = agentOwnerships
             /\ req'[r].pc \in {"buy_select_agent", "buy_select_ownership", "done"}
             /\ req'[r].pc = "done" => req'[r].status = "already_owned"]_vars

\* C9 witness: a wallet purchased a for-sale agent, its second purchase of
\* the same agent was answered "already owned", and the table holds the one
\* row of the first purchase.
C9_Witness ==
    \E r, r2 \in Requests :
        /\ r2 < r
        /\ req[r2].op = "buyAgent" /\ req[r2].status = "purchased"
        /\ req[r].op = "buyAgent" /\ req[r].status = "already_owned"
        /\ req[r].wallet = req[r2].wallet /\ req[r].agentId = req[r2].agentId
        /\ Cardinality({o \in agentOwnerships :
               o.agentId = req[r].agentId /\ o.userId = req[r].user}) = 1

\* the agent row a was complete when request me arrived (its creator's
\* ownership row is written) and is for sale, and the buyer holds no
\* ownership of it: the buyer did not create it and no purchase of it by the
\* buyer's wallet has succeeded
MayPurchase(me, a) ==
    /\ a.id = me.agentId /\ a.isForSale
    /\ a.id <= me.agentsSeen
    /\ \E o \in agentOwnerships : o.userId = a.creatorId /\ o.agentId = a.agentId
    /\ a.creatorId # me.user
    /\ \A r2 \in Requests :
         ~(/\ req[r2].op = "buyAgent" /\ req[r2].status = "purchased"
           /\ req[r2].wallet = me.wallet /\ req[r2].agentId = a.id)

\* C10: a purchaseAgent request succeeds, adding exactly one ownership row
\* for the buyer and the agent, whenever the agent exists, is for sale and
\* the buyer holds no ownership of it: its ownership lookup lets it through
\* and its INSERT is accepted.
C10_PurchaseSucceeds ==
    [][\A r \in Requests :
          (Steps(r) /\ \E a \in agents : MayPurchase(req[r], a))
          => /\ req[r].pc = "buy_select_ownership"
                  => req'[r].pc = "buy_insert_ownership"
             /\ req[r].pc = "buy_insert_ownership"
                  => /\ req'[r].status = "purchased"
                     /\ \E o \in agentOwnerships' :
                          /\ o.agentId = req[r].agentId /\ o.userId = req[r].user
                          /\ o \notin agentOwnerships
                          /\ agentOwnerships' = agentOwnerships \cup {o}]_vars

\* the buyer of this purchase holds an ownership row naming the agent id of
\* the purchase
HoldsOwnershipRow(me) ==
    \E o \in agentOwnerships : o.agentId = me.agentId /\ o.userId = me.user

\* C11: once the buyer is resolved, purchaseAgent evaluates its preconditions
\* in the order agent exists, agent is for sale, buyer does not own it, and the
\* first that fails is the outcome: an id naming no agent gives "not found"
\* and an agent not for sale gives "not for sale", whatever ownership rows the
\* buyer holds; "already owned" is answered only for an agent that exists and
\* is for sale.
C11_PreconditionOrder ==
    [][\A r \in Requests :
         (req[r].op = "buyAgent" /\ Steps(r)) =>
             /\ (req[r].pc = "buy_select_agent" /\ NamesNoAgent(req[r]))
                    => (req'[r].pc = "done" /\ req'[r].status = "not_found")
             /\ (req[r].pc = "buy_select_agent" /\ NamesAgentNotForSale(req[r]))
                    => (req'[r].pc = "done" /\ req'[r].status = "not_for_sale")
             /\ req'[r].status = "not_found" => NamesNoAgent(req[r])
             /\ req'[r].status = "not_for_sale" => NamesAgentNotForSale(req[r])
             /\ req'[r].status = "already_owned"
                    => /\ \E a \in agents : a.id = req[r].agentId /\ a.isForSale
                       /\ HoldsOwnershipRow(req[r])
      ]_vars

\* a purchase was answered "not found" and another "not for sale", each for a
\* buyer holding an ownership row with the agent id of the purchase
C11_Witness ==
    \E r1, r2 \in Requests :
        /\ req[r1].op = "buyAgent" /\ req[r1].status = "not_found"
        /\ HoldsOwnershipRow(req[r1])
        /\ \A a \in agents : a.id # req[r1].agentId
        /\ req[r2].op = "buyAgent" /\ req[r2].status = "not_for_sale"

\* C12: no step of a purchaseAgent request, whatever its outcome, changes the
\* agents table: no row is added or removed, and no for-sale flag changes.
C12_PurchaseLeavesAgents ==
    [][\A r \in Requests :
         (req'[r].op = "buyAgent" /\ Steps(r)) => agents' = agents]_vars

\* a purchase succeeded and the agent it bought is still for sale
C12_Witness ==
    \E r \in Requests :
        /\ req[r].op = "buyAgent" /\ req[r].status = "purchased"
        /\ \E a \in agents : a.id = req[r].agentId /\ a.isForSale

\* C15: createUser for a well-formed address that no user row holds when its
\* INSERT runs adds exactly one user row with that address and returns it;
\* when a row with the address exists, it ends in a conflict error (the
\* handler's own "already exists" or the store's duplicate-key rejection, both
\* 400) and leaves the users table unchanged.  No other step of the request
\* changes the table.
C15_CreateUserOnceOrConflict ==
    [][\A r \in Requests :
         (req'[r].op = "createUser" /\ Steps(r)
            /\ req'[r].status # "validation_error") =>
             LET held == \E u \in users : u.walletAddress = req'[r].wallet IN
             /\ held => /\ req'[r].pc = "done"
                        /\ req'[r].status \in
                              {"user_exists", "error_users_wallet_address_unique"}
                        /\ users' = users
             /\ (~held /\ req[r].pc = "cu_insert") =>
                    /\ req'[r].pc = "done" /\ req'[r].status = "created"
                    /\ \E u \in users' :
                          /\ u \notin users
                          /\ u.walletAddress = req'[r].wallet
                          /\ u.id = req'[r].user
                          /\ users' = users \cup {u}
             /\ (~held /\ req[r].pc # "cu_insert") =>
                    (req'[r].pc = "cu_insert" /\ users' = users)
      ]_vars

\* one createUser created the user of a wallet, two more for the same wallet
\* ended in the two conflict errors
C15_Witness ==
    \E r1, r2, r3 \in Requests :
        /\ req[r1].op = "createUser" /\ req[r1].status = "created"
        /\ req[r2].op = "createUser" /\ req[r2].status = "user_exists"
        /\ req[r3].op = "createUser"
        /\ req[r3].status = "error_users_wallet_address_unique"
        /\ req[r2].wallet = req[r1].wallet /\ req[r3].wallet = req[r1].wallet
        /\ Cardinality({u \in users : u.walletAddress = req[r1].wallet}) = 1

\* C16: ownership rows are never deleted or changed, and a step adds a row
\* only as the last step of a createAgent request that ends "created" (the
\* row of the creator) or of a purchaseAgent request that ends "purchased"
\* (the row of the buyer), one row per such step; a request that ends in not
\* found, not for sale, already owned or a validation error adds none.
C16_OwnershipsOnlyGrow ==
    [][/\ agentOwnerships \subseteq agentOwnerships'
       /\ agentOwnerships' # agentOwnerships =>
             \E r \in Requests :
                 /\ Finishes(r)
                 /\ \/ req'[r].op = "createAgent" /\ req'[r].status = "created"
                    \/ req'[r].op = "buyAgent" /\ req'[r].status = "purchased"
                 /\ \E o \in agentOwnerships' :
                       /\ o \notin agentOwnerships
                       /\ o.userId = req'[r].user
                       /\ o.agentId = req'[r].agentId
                       /\ agentOwnerships' = agentOwnerships \cup {o}
       /\ \A r \in Requests :
             (Finishes(r) /\ req'[r].status \in
                 {"not_found", "not_for_sale", "already_owned", "validation_error"})
                 => agentOwnerships' = agentOwnerships
      ]_vars

\* a creation and a purchase each added a row, both rows are still there, and
\* a third request ended "already owned"
C16_Witness ==
    \E r1, r2, r3 \in Requests :
        /\ req[r1].op = "createAgent" /\ req[r1].status = "created"
        /\ req[r2].op = "buyAgent" /\ req[r2].status = "purchased"
        /\ req[r3].status = "already_owned"
        /\ \E o1, o2 \in agentOwnerships :
              /\ o1 # o2
              /\ o1.userId = req[r1].user /\ o1.agentId = req[r1].agentId
              /\ o2.userId = req[r2].user /\ o2.agentId = req[r2].agentId
        /\ Cardinality(agentOwnerships) = 2

UsersOfWallet(r) == {u \in users' : u.walletAddress = req'[r].wallet}

\* C13 as stated: after any request that names a well-formed wallet address
\* and passes validation, whatever the endpoint, exactly one user row holds
\* that address.
C13_UserAfterAnyRequest ==
    [][\A r \in Requests :
         (/\ Finishes(r) /\ req'[r].wallet \in Wallets
          /\ req'[r].status # "validation_error")
             => Cardinality(UsersOfWallet(r)) = 1]_vars

\* C13: after a createUser, createAgent or purchaseAgent request that passes
\* validation, exactly one user row holds its wallet address; userExists,
\* listCreatedAgents, listOwnedAgents and checkOwnership never write to users,
\* and after any request at most one row holds its wallet address.
C13_UserAfterWriteRequest ==
    [][\A r \in Requests :
         /\ (Finishes(r) /\ req'[r].wallet \in Wallets) =>
                /\ Cardinality(UsersOfWallet(r)) <= 1
                /\ (req'[r].op \in {"createUser", "createAgent", "buyAgent"}
                      /\ req'[r].status # "validation_error")
                       => Cardinality(UsersOfWallet(r)) = 1
         /\ (Steps(r) /\ req'[r].op \in ReadOps) => users' = users
      ]_vars

\* a GET request for a well-formed wallet has been answered and no user row
\* holds that wallet, while a write request has created the row of another
C13_Witness ==
    \E r1, r2 \in Requests :
        /\ req[r1].op \in ReadOps /\ req[r1].pc = "done"
        /\ req[r1].wallet \in Wallets
        /\ \A u \in users : u.walletAddress # req[r1].wallet
        /\ req[r2].op \in {"createUser", "createAgent", "buyAgent"}
        /\ req[r2].pc = "done" /\ req[r2].wallet \in Wallets
        /\ Cardinality({u \in users : u.walletAddress = req[r2].wallet}) = 1

\* C14: checkOwnership for a well-formed wallet address that no user row
\* holds answers owns = false in its first step, whatever the agent id
\* parameter is, and writes nothing.
C14_CheckOwnershipNoUser ==
    [][\A r \in Requests :
         (/\ Steps(r) /\ req[r].pc = "idle"
          /\ req'[r].op = "checkOwnership"
          /\ req'[r].wallet \in Wallets
          /\ \A u \in users : u.walletAddress # req'[r].wallet)
             => /\ req'[r].pc = "done" /\ req'[r].status = "owns_false"
                /\ tables' = tables
      ]_vars

\* checkOwnership answered owns = false for a wallet without a user row, with
\* an agent id parameter that is no number, while agents exist
C14_Witness ==
    \E r \in Requests :
        /\ req[r].op = "checkOwnership" /\ req[r].status = "owns_false"
        /\ req[r].agentId = NaN
        /\ \A u \in users : u.walletAddress # req[r].wallet
        /\ agents # {}

\* the wallet of request `me` created agent a: a createAgent request of that
\* wallet inserted a and ended "created"
CreatedBy(me, a) ==
    \E q \in Requests :
        /\ req[q].op = "createAgent" /\ req[q].status = "created"
        /\ req[q].agent = a.id /\ req[q].wallet = me.wallet

\* the wallet of request `me` completed a successful purchase of agent a
PurchasedBy(me, a) ==
    \E q \in Requests :
        /\ req[q].op = "buyAgent" /\ req[q].status = "purchased"
        /\ req[q].agentId = a.id /\ req[q].wallet = me.wallet

\* C20: a checkOwnership(id, w) request whose id is the internal id of an
\* agent whose creation is complete answers owns = true exactly when wallet w
\* created that agent or completed a successful purchase of it: the row
\* written at creation counts for the agent created, and for no other.
C20_OwnsIffCreatedOrPurchased ==
    [][\A r \in Requests : \A a \in agents :
         (/\ Finishes(r) /\ req'[r].op = "checkOwnership"
          /\ req'[r].wallet \in Wallets
          /\ req'[r].agentId = a.id
          /\ \E q \in Requests : req[q].op = "createAgent"
                /\ req[q].status = "created" /\ req[q].agent = a.id)
             => /\ req'[r].status \in {"owns_true", "owns_false"}
                /\ req'[r].status = "owns_true"
                      <=> (CreatedBy(req'[r], a) \/ PurchasedBy(req'[r], a))
      ]_vars

\* the input of request `me` fails validation: a malformed wallet address,
\* an empty or too long name, description or model, no capability, a
\* negative price, or an agent id that is not positive
FailsValidation(me) ==
    \/ me.wallet \notin Wallets
    \/ /\ me.op = "createAgent"
       /\ \/ me.name < 1 \/ me.name > 255
          \/ me.description < 1 \/ me.description > 1000
          \/ me.model < 1 \/ me.model > 100
          \/ me.capabilities < 1
          \/ me.price # Undefined /\ me.price < 0
          \/ me.agentId # Undefined /\ me.agentId <= 0
    \/ me.op = "buyAgent" /\ me.agentId <= 0

\* C17: a createUser, createAgent or purchaseAgent request whose input fails
\* validation is answered with a validation error in its first step, and
\* that step leaves users, agents and ownerships and their id sequences as
\* they were; no request with valid input is answered so.
C17_InvalidInputWritesNothing ==
    [][\A r \in Requests :
         (/\ Steps(r) /\ req[r].pc = "idle"
          /\ req'[r].op \in {"createUser", "createAgent", "buyAgent"}) =>
             /\ FailsValidation(req'[r]) =>
                    /\ req'[r].pc = "done"
                    /\ req'[r].status = "validation_error"
                    /\ tables' = tables
                    /\ <<usersSeq, agentsSeq, ownershipsSeq>>' =
                          <<usersSeq, agentsSeq, ownershipsSeq>>
             /\ ~FailsValidation(req'[r]) => req'[r].status # "validation_error"
      ]_vars

\* with rows in every table, a createAgent without capabilities and a
\* purchase of agent id 0 were both rejected
C17_Witness ==
    \E r1, r2 \in Requests :
        /\ req[r1].op = "createAgent" /\ req[r1].status = "validation_error"
        /\ req[r1].capabilities = 0
        /\ req[r2].op = "buyAgent" /\ req[r2].status = "validation_error"
        /\ req[r2].agentId = 0
        /\ users # {} /\ agents # {} /\ agentOwnerships # {}

\* C19: the agent row createAgent inserts, which is the agent the response
\* returns, has price 0 when the body omits the price or gives price 0, and
\* has the for-sale flag false when the body omits the flag or gives false.
C19_DefaultsStored ==
    [][\A r \in Requests :
         (Steps(r) /\ req[r].pc = "ca_insert_agent" /\ agents' # agents) =>
             \E a \in agents' :
                 /\ a \notin agents /\ agents' = agents \cup {a}
                 /\ a.id = req'[r].agent
                 /\ req[r].price \in {Undefined, 0} => a.price = 0
                 /\ req[r].isForSale \in {"undefined", "false"} => a.isForSale = FALSE
      ]_vars

\* the row of a request's agent, the request's body having given these
\* values for price and for-sale flag
Inserted(price, isForSale) ==
    {a \in agents : \E r \in Requests :
        /\ req[r].pc = "ca_insert_ownership" /\ req[r].agent = a.id
        /\ req[r].price = price /\ req[r].isForSale = isForSale}

\* one request that omits price and flag and one that gives price 0 and flag
\* false have both inserted their agents, with price 0 and not for sale,
\* beside an earlier agent with a price that is for sale
C19_Witness ==
    /\ \E a \in Inserted(Undefined, "undefined") : a.price = 0 /\ ~a.isForSale
    /\ \E a \in Inserted(0, "false") : a.price = 0 /\ ~a.isForSale
    /\ \E a \in agents : a.price > 0 /\ a.isForSale

\* agent a was created not for sale and its creation is complete
CreatedNotForSale(a) ==
    /\ ~a.isForSale
    /\ \E q \in Requests : /\ req[q].op = "createAgent"
                            /\ req[q].status = "created"
                            /\ req[q].agent = a.id

\* C21: no step changes or removes an agent row, so no for-sale flag ever
\* changes; and for an agent created with the flag false no purchaseAgent
\* request naming it ends "purchased" and no ownership row that the
\* application reads as a row of that agent (agent_id equal to the agent's
\* id) belongs to a user other than its creator.
C21_NotForSaleKeepsItsOwner ==
    [][/\ \A a \in agents : a \in agents'
       /\ \A a \in agents :
             CreatedNotForSale(a) =>
                 /\ \A r \in Requests :
                       (Finishes(r) /\ req'[r].op = "buyAgent"
                          /\ req'[r].agentId = a.id)
                           => req'[r].status # "purchased"
                 /\ \A o \in agentOwnerships' :
                       o.agentId = a.id => o.userId = a.creatorId
      ]_vars

\* how far a handler has come: every statement of a handler is later in its
\* code than the one before
PcRank(pc) ==
    CASE pc = "idle" -> 0
      [] pc \in {"cu_insert", "gocu_insert"} -> 1
      [] pc \in {"ca_check", "buy_select_agent"} -> 2
      [] pc \in {"ca_insert_agent", "buy_select_ownership"} -> 3
      [] pc \in {"ca_insert_ownership", "buy_insert_ownership"} -> 4
      [] pc = "done" -> 5

\* the outcomes that report an INSERT the store rejected
StoreErrors ==
    {"error_users_wallet_address_unique", "error_agents_agent_id_unique",
     "error_agents_creator_id_fk", "error_ownerships_agent_id_not_null",
     "error_ownerships_agent_id_fk", "error_ownerships_user_id_fk"}

\* this step is request r's statement at one of the positions `pcs`, and
\* draws the next value of a table's serial
Attempts(r, pcs, seq, seqAfter) ==
    /\ Steps(r) /\ req[r].pc \in pcs /\ seqAfter = seq + 1

\* C22: no request retries.  Every step of a request moves it forward in its
\* handler, so it passes each INSERT at most once; every INSERT attempt (a
\* value drawn from a table's serial) is the one statement of one request at
\* that INSERT; a request whose INSERT the store rejects ends in that step
\* with the store's error; and a request that has ended keeps its one
\* outcome.
C22_NoRetry ==
    [][/\ \A r \in Requests :
             /\ Steps(r) => PcRank(req'[r].pc) > PcRank(req[r].pc)
             /\ req[r].pc = "done" => req'[r] = req[r]
             /\ req'[r].pc = "done" <=> req'[r].status # "pending"
       /\ usersSeq' # usersSeq =>
             /\ \E r \in Requests :
                   /\ Attempts(r, {"cu_insert", "gocu_insert"}, usersSeq, usersSeq')
                   /\ users' = users =>
                         /\ req'[r].pc = "done"
                         /\ req'[r].status \in StoreErrors
             /\ agentsSeq' = agentsSeq /\ ownershipsSeq' = ownershipsSeq
       /\ agentsSeq' # agentsSeq =>
             /\ \E r \in Requests :
                   /\ Attempts(r, {"ca_insert_agent"}, agentsSeq, agentsSeq')
                   /\ agents' = agents =>
                         /\ req'[r].pc = "done"
                         /\ req'[r].status \in StoreErrors
             /\ ownershipsSeq' = ownershipsSeq
       /\ ownershipsSeq' # ownershipsSeq =>
             \E r \in Requests :
                 /\ Attempts(r, {"ca_insert_ownership", "buy_insert_ownership"},
                             ownershipsSeq, ownershipsSeq')
                 /\ agentOwnerships' = agentOwnerships =>
                       /\ req'[r].pc = "done"
                       /\ req'[r].status \in StoreErrors
       /\ users' # users => usersSeq' # usersSeq
       /\ agents' # agents => agentsSeq' # agentsSeq
       /\ agentOwnerships' # agentOwnerships => ownershipsSeq' # ownershipsSeq
      ]_vars

\* two requests for the same new wallet both attempted the user INSERT: the
\* first is served, the loser, inside getOrCreateUser, ended with the store's
\* error and the wallet has its one row
C22_Witness ==
    \E r1, r2 \in Requests :
        /\ r1 # r2 /\ req[r1].wallet = req[r2].wallet
        /\ req[r1].pc = "done" /\ req[r1].user # 0
        /\ req[r1].status \in {"created", "purchased"}
        /\ req[r2].op \in {"createAgent", "buyAgent"}
        /\ req[r2].status = "error_users_wallet_address_unique"
        /\ usersSeq = 2
        /\ Cardinality({u \in users : u.walletAddress = req[r1].wallet}) = 1

=============================================================================
